---- MODULE Spec2Model ----
(***************************************************************************)
(* Model of plurality_v_rcv.py: the resolvers plurality, irv and rcv and   *)
(* the pairwise counter majority_preferences, applied to one election.     *)
(*                                                                         *)
(* A candidate is an integer 0..c-1 (line 102), a vote is a sequence of    *)
(* candidates, an election is a sequence of votes.  A Python list is a     *)
(* TLA+ sequence (index 1 is Python's index 0).  A Counter is a record of  *)
(* its keys in insertion order and of its counts.  The outcome of a call   *)
(* is a record: a returned candidate, the returned None, or the exception  *)
(* the call ends in.                                                       *)
(***************************************************************************)
EXTENDS Integers, Sequences, FiniteSets, TLC

VARIABLES
    election,           \* the argument of every call
    pc,                 \* position of the driver that calls the resolvers
    plurality_result,   \* outcome of plurality(election)
    irv_candidates,     \* the local `candidates` of irv
    irv_trace,          \* history: irv's active set at the start of each round
    irv_result,         \* outcome of irv(election)
    rcv_candidates,     \* the local `candidates` of rcv
    rcv_trace,          \* history: rcv's active set at the start of each round
    rcv_early,          \* history: rcv returned from inside its loop (line 66)
    rcv_result,         \* outcome of rcv(election)
    choices,            \* <<choice1, choice2>> of the majority_preferences call
    preferred           \* outcome of majority_preferences(election, choice1, choice2)

vars == <<election, pc, plurality_result, irv_candidates, irv_trace, irv_result,
          rcv_candidates, rcv_trace, rcv_early, rcv_result, choices, preferred>>

-----------------------------------------------------------------------------
(* Bounds of the model *)

\* largest number of candidates of an election (the source draws 2..10)
MaxCands == 3

\* largest size of an election: its ranking entries plus its candidate set,
\* (number of votes + 1) * number of candidates
MaxSize == 18

-----------------------------------------------------------------------------
(* Values *)

Min(S) == CHOOSE x \in S : \A y \in S : x <= y
Max(S) == CHOOSE x \in S : \A y \in S : x >= y

Range(s) == {s[i] : i \in 1..Len(s)}

\* outcomes of a call
Return(c)  == [kind |-> "return", val |-> c]
None       == [kind |-> "None", val |-> -1]
Raise(exc) == [kind |-> exc, val |-> -1]
Pending    == [kind |-> "pending", val |-> -1]

IsError(r) == r.kind \in {"ValueError", "TypeError"}

\* all rankings of the candidates 0..c-1 (st.permutations, line 103)
Rankings(c) == {r \in [1..c -> 0..(c - 1)] : \A i, j \in 1..c : r[i] = r[j] => i = j}

\* the elections the model draws: v complete ballots over c candidates, and
\* the empty election
Shapes == {s \in (1..MaxCands) \X (0..MaxSize) : (s[2] + 1) * s[1] <= MaxSize}

Elections == UNION {[1..s[2] -> Rankings(s[1])] : s \in Shapes}

-----------------------------------------------------------------------------
(* collections.Counter *)

\* the keys of Counter(items), in the order of their first occurrence
RECURSIVE CounterKeys(_)
CounterKeys(items) ==
    IF items = <<>> THEN <<>>
    ELSE LET front == CounterKeys(SubSeq(items, 1, Len(items) - 1))
             last  == items[Len(items)]
         IN  IF last \in Range(front) THEN front ELSE Append(front, last)

\* Counter(items)
Counter(items) ==
    [keys |-> CounterKeys(items),
     n    |-> [k \in Range(items) |-> Cardinality({i \in 1..Len(items) : items[i] = k})]]

\* counter[c]: a missing key counts 0
Count(counter, c) == IF c \in DOMAIN counter.n THEN counter.n[c] ELSE 0

\* counter.most_common(1)[0]: max over the items keyed by count, which
\* keeps the first of the maximal entries in insertion order
most_common(counter) ==
    LET top == Max({counter.n[k] : k \in DOMAIN counter.n})
        i   == Min({j \in 1..Len(counter.keys) : counter.n[counter.keys[j]] = top})
    IN  <<counter.keys[i], top>>

-----------------------------------------------------------------------------
(* candidates_for_election, plurality *)

\* a set as the sequence its iteration yields (small ints: ascending)
RECURSIVE IterSet(_)
IterSet(S) == IF S = {} THEN <<>> ELSE <<Min(S)>> \o IterSet(S \ {Min(S)})

\* the frozenset of line 12; isList tells a frozenset from a list
candidates_for_election(e) ==
    [isList |-> FALSE,
     elems  |-> IterSet(UNION {Range(e[i]) : i \in 1..Len(e)})]

\* [c for c, v in counts.items() if v == winning_score]
Winners(counts) ==
    LET winning_score == Max({counts.n[k] : k \in DOMAIN counts.n})
    IN  SelectSeq(counts.keys, LAMBDA c : counts.n[c] = winning_score)

\* the variant that reports the first of the leading candidates
plurality_most_common(e) ==
    LET counts == Counter([i \in 1..Len(e) |-> e[i][1]])
    IN  IF DOMAIN counts.n = {} THEN Raise("ValueError")
        ELSE Return(most_common(counts)[1])

plurality(e) ==
    LET counts == Counter([i \in 1..Len(e) |-> e[i][1]])
        winners == Winners(counts)
    IN  IF DOMAIN counts.n = {} THEN Raise("ValueError")
        ELSE IF Len(winners) > 1 THEN None
        ELSE Return(winners[1])

-----------------------------------------------------------------------------
(* The elimination rounds shared by irv and rcv *)

\* next(v for v in vote if v in candidates); a vote that ranks no active
\* candidate has none (the elections drawn here hold complete ballots)
TopActiveChoice(vote, candidates) ==
    vote[Min({i \in 1..Len(vote) : vote[i] \in Range(candidates.elems)})]

\* scores = Counter(next(...) for vote in election)
Scores(e, candidates) ==
    Counter([i \in 1..Len(e) |-> TopActiveChoice(e[i], candidates)])

\* losing_score = min(scores[c] for c in candidates)
losing_score(scores, candidates) ==
    Min({Count(scores, c) : c \in Range(candidates.elems)})

\* the variant that compares with >= and so removes nobody
Eliminate_keeps_losers(scores, candidates) ==
    LET losing == losing_score(scores, candidates)
    IN  [isList |-> TRUE,
         elems  |-> SelectSeq(candidates.elems, LAMBDA c : Count(scores, c) >= losing)]

\* candidates = [c for c in candidates if scores[c] > losing_score]
Eliminate(scores, candidates) ==
    LET losing == losing_score(scores, candidates)
    IN  [isList |-> TRUE,
         elems  |-> SelectSeq(candidates.elems, LAMBDA c : Count(scores, c) > losing)]

\* the lines after the loop: None for no candidate, else candidates[0],
\* which a frozenset does not support
AfterLoop(candidates) ==
    IF Len(candidates.elems) = 0 THEN None
    ELSE IF candidates.isList THEN Return(candidates.elems[1])
    ELSE Raise("TypeError")

-----------------------------------------------------------------------------
(* irv *)

\* one pass through the body of irv's loop
irv_round(e, candidates) == Eliminate(Scores(e, candidates), candidates)

RECURSIVE irv_loop(_, _)
irv_loop(e, candidates) ==
    IF Len(candidates.elems) > 1 THEN irv_loop(e, irv_round(e, candidates))
    ELSE AfterLoop(candidates)

irv(e) == irv_loop(e, candidates_for_election(e))

-----------------------------------------------------------------------------
(* rcv *)

\* the variant that rounds down for an odd number of voters
fifty_percent_votes_floor(e) == Len(e) \div 2

fifty_percent_votes(e) == (Len(e) \div 2) + (IF Len(e) % 2 = 0 THEN 0 ELSE 1)

\* the variant that tests with > in place of >=
ReachesFiftyPercent_strict(e, scores) ==
    most_common(scores)[2] > fifty_percent_votes(e)

\* the test of line 65 on the round's scores
ReachesFiftyPercent(e, scores) ==
    most_common(scores)[2] >= fifty_percent_votes(e)

RECURSIVE rcv_loop(_, _)
rcv_loop(e, candidates) ==
    IF Len(candidates.elems) > 1
    THEN LET scores == Scores(e, candidates)
         IN  IF ReachesFiftyPercent(e, scores)
             THEN Return(most_common(scores)[1])
             ELSE rcv_loop(e, Eliminate(scores, candidates))
    ELSE AfterLoop(candidates)

rcv(e) == rcv_loop(e, candidates_for_election(e))

-----------------------------------------------------------------------------
(* majority_preferences *)

\* operator.indexOf(vote, c): 0 where c is absent (Python raises ValueError)
indexOf(vote, c) ==
    IF c \in Range(vote) THEN Min({i \in 1..Len(vote) : vote[i] = c}) ELSE 0

\* the variant that credits choice1 only where it is the vote's first choice
majority_preferences_first_choice(e, choice1, choice2) ==
    IF \E i \in 1..Len(e) : indexOf(e[i], choice1) = 0 \/ indexOf(e[i], choice2) = 0
    THEN [kind |-> "ValueError", counter |-> Counter(<<>>)]
    ELSE [kind |-> "return",
          counter |-> Counter([i \in 1..Len(e) |->
                          IF indexOf(e[i], choice1) = 1 THEN choice1 ELSE choice2])]

majority_preferences(e, choice1, choice2) ==
    IF \E i \in 1..Len(e) : indexOf(e[i], choice1) = 0 \/ indexOf(e[i], choice2) = 0
    THEN [kind |-> "ValueError", counter |-> Counter(<<>>)]
    ELSE [kind |-> "return",
          counter |-> Counter([i \in 1..Len(e) |->
                          IF indexOf(e[i], choice1) < indexOf(e[i], choice2)
                          THEN choice1 ELSE choice2])]

-----------------------------------------------------------------------------
(* The driver: one election, each function called on it in turn *)

Start(first) ==
    /\ election \in Elections
    /\ pc = first
    /\ plurality_result = Pending
    /\ irv_candidates = [isList |-> FALSE, elems |-> <<>>]
    /\ irv_trace = <<>>
    /\ irv_result = Pending
    /\ rcv_candidates = [isList |-> FALSE, elems |-> <<>>]
    /\ rcv_trace = <<>>
    /\ rcv_early = FALSE
    /\ rcv_result = Pending
    /\ choices = <<-1, -1>>
    /\ preferred = [kind |-> "pending", counter |-> Counter(<<>>)]

\* plurality, irv and rcv called in turn on one election
Init == Start("plurality")

PluralityCall ==
    /\ pc = "plurality"
    /\ plurality_result' = plurality(election)
    /\ pc' = "irv"
    /\ UNCHANGED <<election, irv_candidates, irv_trace, irv_result, rcv_candidates,
                   rcv_trace, rcv_early, rcv_result, choices, preferred>>

\* line 38
IrvStart ==
    /\ pc = "irv"
    /\ irv_candidates' = candidates_for_election(election)
    /\ pc' = "irv_loop"
    /\ UNCHANGED <<election, plurality_result, irv_trace, irv_result, rcv_candidates,
                   rcv_trace, rcv_early, rcv_result, choices, preferred>>

\* lines 39-42, one round
IrvRound ==
    /\ pc = "irv_loop"
    /\ Len(irv_candidates.elems) > 1
    /\ irv_candidates' = irv_round(election, irv_candidates)
    /\ irv_trace' = Append(irv_trace, Range(irv_candidates.elems))
    /\ UNCHANGED <<election, pc, plurality_result, irv_result, rcv_candidates,
                   rcv_trace, rcv_early, rcv_result, choices, preferred>>

\* lines 44-47
IrvReturn ==
    /\ pc = "irv_loop"
    /\ ~(Len(irv_candidates.elems) > 1)
    /\ irv_result' = AfterLoop(irv_candidates)
    /\ pc' = "rcv"
    /\ UNCHANGED <<election, plurality_result, irv_candidates, irv_trace,
                   rcv_candidates, rcv_trace, rcv_early, rcv_result, choices, preferred>>

\* lines 57-60
RcvStart ==
    /\ pc = "rcv"
    /\ rcv_candidates' = candidates_for_election(election)
    /\ pc' = "rcv_loop"
    /\ UNCHANGED <<election, plurality_result, irv_candidates, irv_trace, irv_result,
                   rcv_trace, rcv_early, rcv_result, choices, preferred>>

\* lines 62-66, the round that returns from inside the loop
RcvEarlyReturn ==
    /\ pc = "rcv_loop"
    /\ Len(rcv_candidates.elems) > 1
    /\ ReachesFiftyPercent(election, Scores(election, rcv_candidates))
    /\ rcv_result' = Return(most_common(Scores(election, rcv_candidates))[1])
    /\ rcv_trace' = Append(rcv_trace, Range(rcv_candidates.elems))
    /\ rcv_early' = TRUE
    /\ pc' = "done"
    /\ UNCHANGED <<election, plurality_result, irv_candidates, irv_trace, irv_result,
                   rcv_candidates, choices, preferred>>

\* lines 62-69, a round that eliminates
RcvRound ==
    /\ pc = "rcv_loop"
    /\ Len(rcv_candidates.elems) > 1
    /\ ~ReachesFiftyPercent(election, Scores(election, rcv_candidates))
    /\ rcv_candidates' = Eliminate(Scores(election, rcv_candidates), rcv_candidates)
    /\ rcv_trace' = Append(rcv_trace, Range(rcv_candidates.elems))
    /\ UNCHANGED <<election, pc, plurality_result, irv_candidates, irv_trace,
                   irv_result, rcv_early, rcv_result, choices, preferred>>

\* lines 71-74
RcvReturn ==
    /\ pc = "rcv_loop"
    /\ ~(Len(rcv_candidates.elems) > 1)
    /\ rcv_result' = AfterLoop(rcv_candidates)
    /\ pc' = "done"
    /\ UNCHANGED <<election, plurality_result, irv_candidates, irv_trace, irv_result,
                   rcv_candidates, rcv_trace, rcv_early, choices, preferred>>

\* lines 81-84, for any two candidates
PreferencesCall ==
    /\ pc = "majority_preferences"
    /\ \E choice1, choice2 \in 0..(MaxCands - 1) :
          /\ choices' = <<choice1, choice2>>
          /\ preferred' = majority_preferences(election, choice1, choice2)
    /\ pc' = "done"
    /\ UNCHANGED <<election, plurality_result, irv_candidates, irv_trace, irv_result,
                   rcv_candidates, rcv_trace, rcv_early, rcv_result>>

Next ==
    \/ PluralityCall
    \/ IrvStart
    \/ IrvRound
    \/ IrvReturn
    \/ RcvStart
    \/ RcvEarlyReturn
    \/ RcvRound
    \/ RcvReturn

Spec == Init /\ [][Next]_vars

\* majority_preferences called on one election
InitPairwise == Start("majority_preferences")

NextPairwise == PreferencesCall

SpecPairwise == InitPairwise /\ [][NextPairwise]_vars

-----------------------------------------------------------------------------
(* Vocabulary of the properties, stated on the election itself *)

\* the candidates that appear in the election
CandidateSet == UNION {Range(election[i]) : i \in 1..Len(election)}

NumVotes == Len(election)

\* the first entry of a vote that is in the active set
FirstActive(vote, active) ==
    vote[CHOOSE i \in 1..Len(vote) :
            vote[i] \in active /\ \A j \in 1..(i - 1) : vote[j] \notin active]

\* the number of votes whose top active choice is c
Tally(active, c) ==
    Cardinality({i \in 1..NumVotes : FirstActive(election[i], active) = c})

\* the number of votes that rank c first
FirstChoices(c) == Cardinality({i \in 1..NumVotes : election[i][1] = c})

MaxTally(active) == Max({Tally(active, c) : c \in active})
MinTally(active) == Min({Tally(active, c) : c \in active})

\* ceil(NumVotes / 2)
HalfRoundedUp == CHOOSE h \in 0..NumVotes : 2 * h >= NumVotes /\ 2 * (h - 1) < NumVotes

\* a resolver's outcome is a candidate of the election or the tie value
CandidateOrTie(r) == r = None \/ (r.kind = "return" /\ r.val \in CandidateSet)

\* the election with the votes at positions i and j exchanged
Swap(e, i, j) ==
    [k \in 1..Len(e) |-> IF k = i THEN e[j] ELSE IF k = j THEN e[i] ELSE e[k]]

\* a ranks before b in the vote
Before(vote, a, b) ==
    \E i, j \in 1..Len(vote) : i < j /\ vote[i] = a /\ vote[j] = b

-----------------------------------------------------------------------------
(* Properties *)

Results == {plurality_result, irv_result, rcv_result}

\* C1: for every valid election (at least one vote, complete duplicate-free
\* ballots over the same candidates) plurality, irv and rcv each return None
\* or one candidate of the election, and nothing else.
C1_ResultIsCandidateOrTie ==
    election # <<>> =>
        \A r \in Results : r # Pending => CandidateOrTie(r)

\* C2: whenever rcv returns a candidate from inside its loop, irv on the
\* same election returns that candidate.
C2_EarlyExitAgreesWithIrv ==
    (election # <<>> /\ rcv_early) => irv_result = rcv_result

\* C3: whenever rcv returns from inside its loop, the returned candidate's
\* tally in that round is more than half of the votes cast.
C3_EarlyExitIsStrictMajority ==
    (election # <<>> /\ rcv_early) =>
        2 * Tally(Range(rcv_candidates.elems), rcv_result.val) > NumVotes

\* C7: the empty election is rejected by every resolver: each call ends in
\* an error, none returns a candidate or None.
C7_EmptyElectionRejected ==
    election = <<>> =>
        \A r \in Results : r # Pending => IsError(r)

\* irv's active set after its k-th round
AfterIrvRound(k) ==
    IF k < Len(irv_trace) THEN irv_trace[k + 1] ELSE Range(irv_candidates.elems)

\* some irv round found every active candidate at the same tally
IrvRoundAllTied ==
    \E k \in 1..Len(irv_trace) :
        \A c, d \in irv_trace[k] : Tally(irv_trace[k], c) = Tally(irv_trace[k], d)

\* C9: each irv round removes exactly the active candidates whose tally is
\* the minimum over the active set; irv returns None if and only if some
\* round finds all active candidates at the same tally, and otherwise
\* returns the one surviving candidate.
C9_IrvEliminatesMinimum ==
    election # <<>> =>
        /\ \A k \in 1..Len(irv_trace) :
              /\ AfterIrvRound(k) \subseteq irv_trace[k]
              /\ irv_trace[k] \ AfterIrvRound(k) =
                    {c \in irv_trace[k] : Tally(irv_trace[k], c) = MinTally(irv_trace[k])}
        /\ irv_result # Pending =>
              /\ irv_result = None <=> IrvRoundAllTied
              /\ ~IrvRoundAllTied =>
                    \E c \in CandidateSet :
                        /\ Range(irv_candidates.elems) = {c}
                        /\ irv_result = Return(c)

\* the candidates whose count of first-ranked votes is the highest
Leaders ==
    {c \in CandidateSet :
        \A d \in CandidateSet : FirstChoices(c) >= FirstChoices(d)}

\* C4: for an election with at least one vote, plurality returns c if and
\* only if c has strictly more first-ranked votes than every other candidate,
\* returns None if and only if two or more candidates share the highest
\* count, and its outcome is that of the election cut to the first entries.
C4_PluralityStrictWinner ==
    (election # <<>> /\ plurality_result # Pending) =>
        /\ \A c \in CandidateSet :
              plurality_result = Return(c) <=>
                  \A d \in CandidateSet \ {c} : FirstChoices(c) > FirstChoices(d)
        /\ plurality_result = None <=> Cardinality(Leaders) >= 2
        /\ plurality_result = plurality([i \in 1..NumVotes |-> <<election[i][1]>>])

\* plurality has returned the winner of a contest in which the three
\* candidates all have first-ranked votes
C4_Witness ==
    /\ plurality_result.kind = "return"
    /\ Cardinality(CandidateSet) = 3
    /\ \A d \in CandidateSet : FirstChoices(d) >= 1

\* C5: for two distinct candidates a, b that appear in every vote,
\* majority_preferences counts each vote once, for whichever of a, b the
\* vote ranks earlier; the two counts add up to the number of votes and the
\* result has no key other than a and b.
C5_PairwiseCountsEveryVote ==
    LET a == choices[1]
        b == choices[2]
    IN  (/\ pc = "done"
         /\ a # b
         /\ \A i \in 1..NumVotes : {a, b} \subseteq Range(election[i])) =>
            /\ preferred.kind = "return"
            /\ Count(preferred.counter, a) =
                  Cardinality({i \in 1..NumVotes : Before(election[i], a, b)})
            /\ Count(preferred.counter, b) =
                  Cardinality({i \in 1..NumVotes : Before(election[i], b, a)})
            /\ Count(preferred.counter, a) + Count(preferred.counter, b) = NumVotes
            /\ DOMAIN preferred.counter.n \subseteq {a, b}
            /\ Range(preferred.counter.keys) \subseteq {a, b}

\* a pairwise count over three-candidate ballots in which both candidates
\* are preferred by some vote and a third candidate leads some vote
C5_Witness ==
    /\ pc = "done"
    /\ choices[1] # choices[2]
    /\ preferred.kind = "return"
    /\ Count(preferred.counter, choices[1]) >= 1
    /\ Count(preferred.counter, choices[2]) >= 1
    /\ \E i \in 1..NumVotes : election[i][1] \notin {choices[1], choices[2]}

StrictSubset(A, B) == A \subseteq B /\ A # B

\* C6: every round of irv's and of rcv's loop that goes on to another round
\* leaves an active set that is a strict subset of the round's active set,
\* and neither loop runs more rounds than the election has candidates.
C6_ActiveSetShrinks ==
    [][/\ (pc = "irv_loop" /\ pc' = "irv_loop") =>
             StrictSubset(Range(irv_candidates'.elems), Range(irv_candidates.elems))
       /\ (pc = "rcv_loop" /\ pc' = "rcv_loop") =>
             StrictSubset(Range(rcv_candidates'.elems), Range(rcv_candidates.elems))
       /\ Len(irv_trace') <= Cardinality(CandidateSet)
       /\ Len(rcv_trace') <= Cardinality(CandidateSet)]_vars

\* both loops have run two rounds
C6_Witness ==
    /\ Len(irv_trace) >= 2
    /\ Len(rcv_trace) >= 2
    /\ rcv_result # Pending

\* the rounds of irv in which the highest tally is at least ceil(n / 2)
ThresholdRounds ==
    {k \in 1..Len(irv_trace) : MaxTally(irv_trace[k]) >= HalfRoundedUp}

Transpositions == {<<i, i + 1>> : i \in 1..(NumVotes - 1)}

\* C10: exchanging votes of a valid election changes neither the outcome of
\* plurality nor that of irv, nor that of rcv when the number of votes is
\* odd.  Every election of the model is checked against each exchange of
\* two neighbouring votes, so the outcomes agree under every permutation.
C10_Anonymity ==
    (election # <<>> /\ pc = "done") =>
        \A t \in Transpositions :
            /\ plurality(Swap(election, t[1], t[2])) = plurality_result
            /\ irv(Swap(election, t[1], t[2])) = irv_result
            /\ NumVotes % 2 = 1 => rcv(Swap(election, t[1], t[2])) = rcv_result

\* the resolvers have run on an odd number of votes that are not all alike:
\* plurality found a tie, irv and rcv a winner, rcv after an elimination round
C10_Witness ==
    /\ pc = "done"
    /\ NumVotes % 2 = 1
    /\ \E t \in Transpositions : Swap(election, t[1], t[2]) # election
    /\ plurality_result = None
    /\ irv_result.kind = "return"
    /\ rcv_result.kind = "return"
    /\ Len(rcv_trace) >= 2

====
